---- MODULE Spec2Model ----
(***************************************************************************)
(* Model of ZXingWasmQrcodeDecoder (src/src/zxing-wasm-qrcode-decoder.ts): *)
(* the adapter between the host's QrcodeDecoderAsync interface and the     *)
(* zxing-wasm engine.                                                      *)
(*                                                                         *)
(* Strings the code inspects (paths, the override) are sequences of        *)
(* one-character strings, so that endsWith and concatenation are computed. *)
(* An optional value is Undefined or Some(v).  A thrown value is a record  *)
(* [type, message]: type "string" for a thrown bare string.                *)
(***************************************************************************)
EXTENDS Naturals, Sequences, FiniteSets

VARIABLES
    adapter,          \* the object built by the most recent `new ZXingWasmQrcodeDecoder`
    ctorArgs,         \* the arguments of that construction
    ctorOutcome,      \* whether that construction returned or threw
    logger,           \* the Logger supplied to that construction: the messages it received
    moduleOverrides,  \* zxing-wasm's process-wide module overrides
    lastOverride,     \* history: the override argument of the latest construction that supplied one
    located,          \* the latest answer of the registered locateFile
    calls             \* the decodeAsync calls made so far, in call order

vars == <<adapter, ctorArgs, ctorOutcome, logger, moduleOverrides, lastOverride,
          located, calls>>

-----------------------------------------------------------------------------
(* Bounds of the model *)

MaxOverrideLen == 2
MaxCalls == 2

-----------------------------------------------------------------------------
(* Values *)

Undefined == [undefined |-> TRUE]
Some(v) == [some |-> v]
IsDefined(o) == "some" \in DOMAIN o

Throw(type, message) == [type |-> type, message |-> message]

\* s.endsWith(suffix)
endsWith(s, suffix) ==
    /\ Len(suffix) <= Len(s)
    /\ SubSeq(s, Len(s) - Len(suffix) + 1, Len(s)) = suffix

Slash == <<"/">>
DotWasm == <<".", "w", "a", "s", "m">>

\* The host enumeration of symbology kinds (core.ts), by member name.
Html5QrcodeSupportedFormats ==
    {"QR_CODE", "AZTEC", "CODABAR", "CODE_39", "CODE_93", "CODE_128",
     "DATA_MATRIX", "MAXICODE", "ITF", "EAN_13", "EAN_8", "PDF_417",
     "RSS_14", "RSS_EXPANDED", "UPC_A", "UPC_E", "UPC_EAN_EXTENSION"}

-----------------------------------------------------------------------------
(* The format tables *)

\* new Map(entries): a later entry with the same key replaces the earlier one.
MapOf(entries) ==
    [k \in {entries[i][1] : i \in DOMAIN entries} |->
        LET last == CHOOSE i \in DOMAIN entries :
                        /\ entries[i][1] = k
                        /\ \A j \in DOMAIN entries : entries[j][1] = k => j <= i
        IN entries[last][2]]

\* Faulty variant: EAN_8 given the tag of EAN_13.
formatMapEntriesSharedTag ==
    << <<"QR_CODE", "QRCode">>, <<"AZTEC", "Aztec">>, <<"CODABAR", "Codabar">>,
       <<"CODE_39", "Code39">>, <<"CODE_93", "Code93">>, <<"CODE_128", "Code128">>,
       <<"DATA_MATRIX", "DataMatrix">>, <<"MAXICODE", "MaxiCode">>, <<"ITF", "ITF">>,
       <<"EAN_13", "EAN-13">>, <<"EAN_8", "EAN-13">>, <<"PDF_417", "PDF417">>,
       <<"UPC_A", "UPC-A">>, <<"UPC_E", "UPC-E">> >>

\* The entries of formatMap, in the order the source lists them.
formatMapEntries ==
    << <<"QR_CODE", "QRCode">>, <<"AZTEC", "Aztec">>, <<"CODABAR", "Codabar">>,
       <<"CODE_39", "Code39">>, <<"CODE_93", "Code93">>, <<"CODE_128", "Code128">>,
       <<"DATA_MATRIX", "DataMatrix">>, <<"MAXICODE", "MaxiCode">>, <<"ITF", "ITF">>,
       <<"EAN_13", "EAN-13">>, <<"EAN_8", "EAN-8">>, <<"PDF_417", "PDF417">>,
       <<"UPC_A", "UPC-A">>, <<"UPC_E", "UPC-E">> >>

formatMap == MapOf(formatMapEntries)

\* forEach over the forward table in insertion order, result.set(value, key).
createReverseFormatMap(fm) ==
    MapOf([i \in DOMAIN formatMapEntries |->
              <<fm[formatMapEntries[i][1]], formatMapEntries[i][1]>>])

-----------------------------------------------------------------------------
(* Construction *)

RECURSIVE zxingFormatsLoop(_, _, _, _, _)
\* The for-loop of createZXingFormats from index i on: the tags pushed so far,
\* the logger's messages, and whether the loop ended by a throw.
zxingFormatsLoop(self, requestedFormats, i, zxingFormats, log) ==
    IF i > Len(requestedFormats)
    THEN [threw |-> Undefined, formats |-> zxingFormats, log |-> log]
    ELSE LET requestedFormat == requestedFormats[i] IN
         IF requestedFormat \in DOMAIN self.formatMap
         THEN zxingFormatsLoop(self, requestedFormats, i + 1,
                  Append(zxingFormats, self.formatMap[requestedFormat]), log)
         ELSE IF IsDefined(self.logger)
              THEN zxingFormatsLoop(self, requestedFormats, i + 1, zxingFormats,
                       Append(log, <<requestedFormat,
                                     " is not supported byZXingWasmQrcodeShim">>))
              ELSE \* this.logger is undefined: reading .logError of it throws
                   [threw |-> Some(Throw("TypeError",
                                  <<"Cannot read properties of undefined">>)),
                    formats |-> zxingFormats, log |-> log]

createZXingFormats(self, requestedFormats, log) ==
    zxingFormatsLoop(self, requestedFormats, 1, <<>>, log)

\* The object literal assigned to this.decodeHints.
makeDecodeHints(formats) ==
    [tryHarder |-> FALSE, formats |-> formats, maxNumberOfSymbols |-> 1]

\* Faulty variant: the separator appended without the endsWith test.
normalizeAlwaysAppend(wasmLocationOveride) == wasmLocationOveride \o Slash

\* this.wasmLocationOverride after lines 65-67.
normalizeOverride(wasmLocationOveride) ==
    IF ~endsWith(wasmLocationOveride, Slash)
    THEN wasmLocationOveride \o Slash
    ELSE wasmLocationOveride

\* The object as the field initialisers leave it, before the constructor body.
newObject ==
    [formatMap |-> formatMap,
     reverseFormatMap |-> createReverseFormatMap(formatMap),
     verbose |-> Undefined,
     logger |-> Undefined,
     decodeHints |-> Undefined,
     wasmLocationOverride |-> Undefined]

\* Faulty variant: a resolver already registered is kept.
registerFirstOnly(registered, self) ==
    IF IsDefined(registered) THEN registered
    ELSE Some([wasmLocationOverride |-> self.wasmLocationOverride])

\* setZXingModuleOverrides({locateFile}): the closure keeps `this`, of which it
\* reads wasmLocationOverride only; no code writes that field after line 67.
setZXingModuleOverrides(registered, self) ==
    Some([wasmLocationOverride |-> self.wasmLocationOverride])

\* The constructor body.  Result: the object, the outcome (returned or the
\* value thrown), the supplied logger's messages, and the module overrides.
constructor(requestedFormats, verbose, log, wasmLocationOveride, registered) ==
    LET this1 == IF IsDefined(wasmLocationOveride)
                 THEN [newObject EXCEPT !.wasmLocationOverride =
                          Some(normalizeOverride(wasmLocationOveride.some))]
                 ELSE newObject
        reg1 == IF IsDefined(wasmLocationOveride)
                THEN setZXingModuleOverrides(registered, this1)
                ELSE registered
        made == createZXingFormats(this1, requestedFormats, log)
    IN IF IsDefined(made.threw)
       THEN [this |-> this1,
             outcome |-> [kind |-> "threw", error |-> made.threw.some],
             log |-> made.log,
             moduleOverrides |-> reg1]
       ELSE [this |-> [this1 EXCEPT !.decodeHints = Some(makeDecodeHints(made.formats)),
                                    !.verbose = Some(verbose),
                                    !.logger = Some("logger")],
             outcome |-> [kind |-> "returned"],
             log |-> made.log,
             moduleOverrides |-> reg1]

\* The registered locateFile callback.
locateFile(resolver, path, prefix) ==
    IF endsWith(path, DotWasm)
    THEN resolver.wasmLocationOverride.some \o path
    ELSE prefix \o path

-----------------------------------------------------------------------------
(* Inputs *)

RECURSIVE SeqsUpTo(_, _)
SeqsUpTo(S, n) ==
    IF n = 0 THEN {<<>>}
    ELSE LET shorter == SeqsUpTo(S, n - 1)
         IN shorter \cup {Append(s, x) : s \in shorter, x \in S}

\* Requested-format lists: empty, supported kinds only, one unsupported kind
\* (alone, first, last, between), a repeated kind, two unsupported kinds.
RequestedLists ==
    { <<>>, <<"QR_CODE">>, <<"EAN_13", "QR_CODE">>, <<"QR_CODE", "QR_CODE">>,
      <<"RSS_14">>, <<"RSS_14", "QR_CODE">>, <<"QR_CODE", "RSS_14">>,
      <<"UPC_E", "RSS_EXPANDED", "AZTEC">>,
      <<"RSS_14", "UPC_EAN_EXTENSION">> }

PathChars == {"/", "w"}
Overrides == {Undefined} \cup {Some(s) : s \in SeqsUpTo(PathChars, MaxOverrideLen)}

RequestedPaths ==
    { <<"z", ".", "w", "a", "s", "m">>, <<"w", "a", "s", "m">>,
      <<"z", ".", "j", "s">> }
Prefixes == { <<"p", "/">> }

-----------------------------------------------------------------------------
(* The state machine of constructions *)

NoCtor == [kind |-> "none"]

Init ==
    /\ adapter = Undefined
    /\ ctorArgs = Undefined
    /\ ctorOutcome = NoCtor
    /\ logger = <<>>
    /\ moduleOverrides = Undefined
    /\ lastOverride = Undefined
    /\ located = Undefined
    /\ calls = <<>>

\* new ZXingWasmQrcodeDecoder(requestedFormats, verbose, logger, wasmLocationOveride)
\* with a fresh logger.
Construct(requestedFormats, verbose, wasmLocationOveride) ==
    LET c == constructor(requestedFormats, verbose, <<>>, wasmLocationOveride,
                         moduleOverrides)
    IN /\ adapter' = Some(c.this)
       /\ ctorArgs' = Some([requestedFormats |-> requestedFormats,
                            verbose |-> verbose,
                            wasmLocationOveride |-> wasmLocationOveride])
       /\ ctorOutcome' = c.outcome
       /\ logger' = c.log
       /\ moduleOverrides' = c.moduleOverrides
       /\ lastOverride' = IF IsDefined(wasmLocationOveride)
                          THEN wasmLocationOveride ELSE lastOverride
       /\ UNCHANGED <<located, calls>>

\* The engine asks the registered resolver where an asset is.
EngineLocateFile(path, prefix) ==
    /\ IsDefined(moduleOverrides)
    /\ located' = Some([path |-> path, prefix |-> prefix,
                        result |-> locateFile(moduleOverrides.some, path, prefix)])
    /\ UNCHANGED <<adapter, ctorArgs, ctorOutcome, logger, moduleOverrides,
                   lastOverride, calls>>

DoConstruct ==
    \E requestedFormats \in RequestedLists, verbose \in BOOLEAN,
       wasmLocationOveride \in Overrides :
        Construct(requestedFormats, verbose, wasmLocationOveride)

DoLocateFile ==
    \E path \in RequestedPaths, prefix \in Prefixes : EngineLocateFile(path, prefix)

Next == DoConstruct \/ DoLocateFile

Spec == Init /\ [][Next]_vars

-----------------------------------------------------------------------------
(* decodeAsync and decode *)

\* QrcodeResultFormat.create (core.ts): the kind with its display name, which
\* the host's text map gives as the member name.
QrcodeResultFormatCreate(format) == [format |-> format, formatName |-> format]

createDebugData == [decoderName |-> "zxing-wasm"]

NoCodeFound == Throw("string", <<"No code found">>)
NullContextError == Throw("TypeError", <<"Cannot read properties of null">>)
UndefinedResultError == Throw("TypeError", <<"Cannot read properties of undefined">>)

\* Faulty variant: an unmapped tag taken for QR_CODE.
toHtml5DefaultQrCode(self, zxingFormat) ==
    IF zxingFormat \notin DOMAIN self.reverseFormatMap
    THEN [kind |-> "return", value |-> "QR_CODE"]
    ELSE [kind |-> "return", value |-> self.reverseFormatMap[zxingFormat]]

toHtml5QrcodeSupportedFormats(self, zxingFormat) ==
    IF zxingFormat \notin DOMAIN self.reverseFormatMap
    THEN [kind |-> "throw",
          error |-> Throw("string", <<"reverseFormatMap doesn't have ", zxingFormat>>)]
    ELSE [kind |-> "return", value |-> self.reverseFormatMap[zxingFormat]]

\* decode up to its await: the drawing context, the pixel buffer, the engine call.
decodeBeforeAwait(self, canvas) ==
    IF ~canvas.hasContext
    THEN [kind |-> "throw", error |-> NullContextError]
    ELSE IF IsDefined(canvas.getImageDataThrows)
         THEN [kind |-> "throw", error |-> canvas.getImageDataThrows.some]
         ELSE [kind |-> "await", hints |-> self.decodeHints.some]

\* The object literal decode returns for the engine result res.
resultFor(self, res) ==
    LET mapped == toHtml5QrcodeSupportedFormats(self, res.format)
    IN IF mapped.kind = "throw"
       THEN mapped
       ELSE [kind |-> "return",
             value |-> [text |-> res.text,
                        format |-> QrcodeResultFormatCreate(mapped.value),
                        debugData |-> createDebugData]]

\* Faulty variant: no length test, so result[0] of an empty list is undefined.
decodeAfterAwaitNoEmptyCheck(self, settled) ==
    IF settled.settled = "rejected"
    THEN [kind |-> "throw", error |-> settled.error]
    ELSE IF Len(settled.result) = 0
         THEN [kind |-> "throw", error |-> UndefinedResultError]
         ELSE resultFor(self, settled.result[1])

\* Faulty variant: the last result taken instead of the first.
decodeAfterAwaitLastResult(self, settled) ==
    IF settled.settled = "rejected"
    THEN [kind |-> "throw", error |-> settled.error]
    ELSE IF Len(settled.result) = 0
         THEN [kind |-> "throw", error |-> NoCodeFound]
         ELSE resultFor(self, settled.result[Len(settled.result)])

\* decode from its await on, once the engine's promise has settled.
decodeAfterAwait(self, settled) ==
    IF settled.settled = "rejected"
    THEN [kind |-> "throw", error |-> settled.error]
    ELSE LET result == settled.result IN
         IF Len(result) = 0
         THEN [kind |-> "throw", error |-> NoCodeFound]
         ELSE resultFor(self, result[1])

\* The promise of an async function whose body ended so.
asyncPromise(ended) ==
    IF ended.kind = "throw" THEN [state |-> "rejected", reason |-> ended.error]
    ELSE IF ended.kind = "return" THEN [state |-> "fulfilled", value |-> ended.value]
    ELSE [state |-> "pending"]

EnginePending == [settled |-> "pending"]
EngineNotCalled == [settled |-> "notCalled"]

\* Faulty variant: decode run outside any promise, so its throw escapes.
decodeAsyncUnwrapped(self, canvas) ==
    LET begun == decodeBeforeAwait(self, canvas)
    IN IF begun.kind = "throw"
       THEN [canvas |-> canvas, returned |-> "threw", promise |-> [state |-> "none"],
             engineCalls |-> 0, hints |-> Undefined, engine |-> EngineNotCalled,
             pc |-> "done"]
       ELSE [canvas |-> canvas, returned |-> "promise", promise |-> [state |-> "pending"],
             engineCalls |-> 1, hints |-> Some(begun.hints), engine |-> EnginePending,
             pc |-> "await"]

\* decodeAsync(canvas) up to its return: the executor runs decode, an async
\* function, to its await, and resolves the new promise with decode's promise.
decodeAsync(self, canvas) ==
    LET begun == decodeBeforeAwait(self, canvas)
    IN [canvas |-> canvas,
        returned |-> "promise",
        promise |-> asyncPromise(begun),
        engineCalls |-> IF begun.kind = "await" THEN 1 ELSE 0,
        hints |-> IF begun.kind = "await" THEN Some(begun.hints) ELSE Undefined,
        engine |-> IF begun.kind = "await" THEN EnginePending ELSE EngineNotCalled,
        pc |-> IF begun.kind = "await" THEN "await" ELSE "done"]

\* Faulty variant: the engine result kept in a field all calls share.
resumeValueShared(cs, i) ==
    LET settledCalls == {j \in DOMAIN cs : cs[j].engine.settled \in {"resolved", "rejected"}}
        latest == CHOOSE j \in settledCalls : \A k \in settledCalls : k <= j
    IN cs[latest].engine

\* What the await of call i yields: `result` is a local of that call.
resumeValue(cs, i) == cs[i].engine

-----------------------------------------------------------------------------
(* Inputs of decode *)

Canvases ==
    { [hasContext |-> TRUE, getImageDataThrows |-> Undefined],
      [hasContext |-> FALSE, getImageDataThrows |-> Undefined],
      [hasContext |-> TRUE,
       getImageDataThrows |-> Some(Throw("DOMException", <<"SecurityError">>))] }

EngineError == Throw("Error", <<"engine failure">>)

ReadResult(text, format) == [text |-> text, format |-> format]

\* Engine result lists: none, one result, two results; mapped and unmapped tags.
EngineResults ==
    { <<>>,
      <<ReadResult("A", "QRCode")>>,
      <<ReadResult("B", "EAN-13")>>,
      <<ReadResult("A", "MicroQRCode")>>,
      <<ReadResult("A", "QRCode"), ReadResult("B", "EAN-13")>>,
      <<ReadResult("A", "QRCode"), ReadResult("B", "MicroQRCode")>>,
      <<ReadResult("B", "EAN-13"), ReadResult("A", "QRCode")>>,
      <<ReadResult("A", "MicroQRCode"), ReadResult("A", "QRCode")>> }

\* Requested-format lists and overrides of the adapter the decode calls run on.
DecodeRequestedLists == { <<>>, <<"QR_CODE">>, <<"EAN_13", "QR_CODE">> }
DecodeOverrides == { Undefined, Some(<<"w">>) }

-----------------------------------------------------------------------------
(* The state machine of decode calls on one constructed adapter *)

InitDecode ==
    \E requestedFormats \in DecodeRequestedLists,
       wasmLocationOveride \in DecodeOverrides :
        LET c == constructor(requestedFormats, FALSE, <<>>, wasmLocationOveride,
                             Undefined)
        IN /\ c.outcome.kind = "returned"
           /\ adapter = Some(c.this)
           /\ ctorArgs = Some([requestedFormats |-> requestedFormats,
                               verbose |-> FALSE,
                               wasmLocationOveride |-> wasmLocationOveride])
           /\ ctorOutcome = c.outcome
           /\ logger = c.log
           /\ moduleOverrides = c.moduleOverrides
           /\ lastOverride = wasmLocationOveride
           /\ located = Undefined
           /\ calls = <<>>

ctorVars == <<adapter, ctorArgs, ctorOutcome, logger, moduleOverrides, lastOverride,
              located>>

\* The host calls decodeAsync(canvas).
DecodeAsync(canvas) ==
    /\ ctorOutcome.kind = "returned"
    /\ Len(calls) < MaxCalls
    /\ calls' = Append(calls, decodeAsync(adapter.some, canvas))
    /\ UNCHANGED ctorVars

\* The engine's promise of call i fulfils with a result list.
EngineResolve(i, result) ==
    /\ calls[i].pc = "await"
    /\ calls' = [calls EXCEPT ![i].engine = [settled |-> "resolved", result |-> result],
                              ![i].pc = "resumable"]
    /\ UNCHANGED ctorVars

\* The engine's promise of call i rejects.
EngineReject(i, error) ==
    /\ calls[i].pc = "await"
    /\ calls' = [calls EXCEPT ![i].engine = [settled |-> "rejected", error |-> error],
                              ![i].pc = "resumable"]
    /\ UNCHANGED ctorVars

\* decode of call i resumes after its await and runs to its end.
DecodeResume(i) ==
    /\ calls[i].pc = "resumable"
    /\ calls' = [calls EXCEPT
                    ![i].promise = asyncPromise(
                        decodeAfterAwait(adapter.some, resumeValue(calls, i))),
                    ![i].pc = "done"]
    /\ UNCHANGED ctorVars

DoDecodeAsync == \E canvas \in Canvases : DecodeAsync(canvas)
DoEngineResolve == \E i \in DOMAIN calls, result \in EngineResults : EngineResolve(i, result)
DoEngineReject == \E i \in DOMAIN calls : EngineReject(i, EngineError)
DoDecodeResume == \E i \in DOMAIN calls : DecodeResume(i)

NextDecode == DoDecodeAsync \/ DoEngineResolve \/ DoEngineReject \/ DoDecodeResume

SpecDecode == InitDecode /\ [][NextDecode]_vars

-----------------------------------------------------------------------------
(* Properties *)

Unsupported(requestedFormats) ==
    {i \in DOMAIN requestedFormats : requestedFormats[i] \notin DOMAIN formatMap}

RECURSIVE ExpectedTags(_)
\* The requested list without the kinds the table lacks, each kind as its tag.
ExpectedTags(requestedFormats) ==
    IF requestedFormats = <<>> THEN <<>>
    ELSE LET k == Head(requestedFormats)
             rest == ExpectedTags(Tail(requestedFormats))
         IN IF k \in DOMAIN formatMap THEN <<formatMap[k]>> \o rest ELSE rest

InSeq(x, s) == \E i \in DOMAIN s : s[i] = x

\* C1: a construction whose requested list holds exactly one kind absent from
\* the format table logs exactly one warning, returns normally, and stores
\* hints whose formats hold no tag for that kind.
C1_OneWarningAndContinue ==
    (IsDefined(ctorArgs)
        /\ Cardinality(Unsupported(ctorArgs.some.requestedFormats)) = 1)
    => /\ Len(logger) = 1
       /\ ctorOutcome.kind = "returned"
       /\ IsDefined(adapter.some.decodeHints)
       /\ \A i \in Unsupported(ctorArgs.some.requestedFormats) :
             ~InSeq(ctorArgs.some.requestedFormats[i],
                    adapter.some.decodeHints.some.formats)

\* C2: a call whose engine promise fulfilled with an empty list rejects with
\* "No code found", is never fulfilled, and invoked the engine exactly once.
C2_EmptyResultRejects ==
    \A i \in DOMAIN calls :
        (calls[i].engine.settled = "resolved" /\ calls[i].engine.result = <<>>)
        => /\ calls[i].engineCalls = 1
           /\ calls[i].promise.state # "fulfilled"
           /\ calls[i].pc = "done"
                => calls[i].promise = [state |-> "rejected", reason |-> NoCodeFound]

C2_Witness ==
    \E i \in DOMAIN calls :
        /\ calls[i].engine.settled = "resolved"
        /\ calls[i].engine.result = <<>>
        /\ calls[i].pc = "done"
        /\ calls[i].promise.state = "rejected"

FirstTagUnmapped(call) ==
    /\ call.engine.settled = "resolved"
    /\ call.engine.result # <<>>
    /\ call.engine.result[1].format \notin DOMAIN adapter.some.reverseFormatMap

FirstTagMapped(call) ==
    /\ call.engine.settled = "resolved"
    /\ call.engine.result # <<>>
    /\ call.engine.result[1].format \in DOMAIN adapter.some.reverseFormatMap

\* C3: a call whose first engine result carries a tag the reverse table lacks
\* rejects with an error naming that tag and is never fulfilled.
C3_UnmappedTagRejects ==
    \A i \in DOMAIN calls :
        FirstTagUnmapped(calls[i])
        => /\ calls[i].promise.state # "fulfilled"
           /\ calls[i].pc = "done"
                => /\ calls[i].promise.state = "rejected"
                   /\ calls[i].promise.reason.type = "string"
                   /\ InSeq(calls[i].engine.result[1].format,
                            calls[i].promise.reason.message)

C3_Witness ==
    \E i \in DOMAIN calls :
        /\ FirstTagUnmapped(calls[i])
        /\ Len(calls[i].engine.result) = 2
        /\ calls[i].pc = "done"
        /\ calls[i].promise.state = "rejected"

\* C4: a call whose first engine result carries a mapped tag fulfils with that
\* result's text, the kind the reverse table gives for its tag, and the
\* decoder name "zxing-wasm"; calls whose responses agree at the first
\* element fulfil with the same Result.
C4_FirstResultOnly ==
    /\ \A i \in DOMAIN calls :
        (FirstTagMapped(calls[i]) /\ calls[i].pc = "done")
        => /\ calls[i].promise.state = "fulfilled"
           /\ calls[i].promise.value.text = calls[i].engine.result[1].text
           /\ calls[i].promise.value.format.format
                = adapter.some.reverseFormatMap[calls[i].engine.result[1].format]
           /\ calls[i].promise.value.debugData = [decoderName |-> "zxing-wasm"]
    /\ \A i, j \in DOMAIN calls :
        (/\ FirstTagMapped(calls[i]) /\ calls[i].pc = "done"
         /\ FirstTagMapped(calls[j]) /\ calls[j].pc = "done"
         /\ calls[i].engine.result[1] = calls[j].engine.result[1])
        => calls[i].promise = calls[j].promise

C4_Witness ==
    \E i, j \in DOMAIN calls :
        /\ calls[i].pc = "done" /\ calls[j].pc = "done"
        /\ calls[i].engine.settled = "resolved" /\ calls[j].engine.settled = "resolved"
        /\ calls[i].engine.result
             = <<ReadResult("A", "QRCode"), ReadResult("B", "EAN-13")>>
        /\ calls[j].engine.result
             = <<ReadResult("A", "QRCode"), ReadResult("B", "MicroQRCode")>>
        /\ calls[i].promise.state = "fulfilled"
        /\ calls[i].promise.value.text = "A"
        /\ calls[i].promise.value.format.format = "QR_CODE"

\* C5: decodeAsync always returns a promise, and each failure of a call (no
\* drawing context, getImageData throwing, the engine rejecting, an empty
\* result list, an unmapped tag) is the rejection reason of that promise.
C5_FailuresRejectPromise ==
    \A i \in DOMAIN calls :
        LET call == calls[i] IN
        /\ call.returned = "promise"
        /\ ~call.canvas.hasContext
             => call.promise = [state |-> "rejected", reason |-> NullContextError]
        /\ (call.canvas.hasContext /\ IsDefined(call.canvas.getImageDataThrows))
             => call.promise = [state |-> "rejected",
                                reason |-> call.canvas.getImageDataThrows.some]
        /\ (call.pc = "done" /\ call.engine.settled = "rejected")
             => call.promise = [state |-> "rejected", reason |-> call.engine.error]
        /\ (call.pc = "done" /\ call.engine.settled = "resolved"
                /\ call.engine.result = <<>>)
             => call.promise.state = "rejected"
        /\ (call.pc = "done" /\ FirstTagUnmapped(call))
             => call.promise.state = "rejected"

C5_Witness ==
    /\ \E i \in DOMAIN calls :
        /\ calls[i].canvas.hasContext
        /\ IsDefined(calls[i].canvas.getImageDataThrows)
        /\ calls[i].returned = "promise"
        /\ calls[i].promise.state = "rejected"
    /\ \E i \in DOMAIN calls :
        /\ calls[i].pc = "done"
        /\ calls[i].engine.settled = "rejected"
        /\ calls[i].promise.state = "rejected"

\* C6: in a constructed adapter the reverse table takes the tag of every kind
\* of the forward table back to that kind, no two kinds share a tag, and the
\* reverse table has one entry per forward entry.
C6_RoundTrip ==
    IsDefined(adapter) =>
        LET fm == adapter.some.formatMap
            rm == adapter.some.reverseFormatMap
        IN /\ \A k \in DOMAIN fm : fm[k] \in DOMAIN rm /\ rm[fm[k]] = k
           /\ \A k1, k2 \in DOMAIN fm : fm[k1] = fm[k2] => k1 = k2
           /\ Cardinality(DOMAIN rm) = Cardinality(DOMAIN fm)

C6_Witness ==
    /\ IsDefined(adapter)
    /\ adapter.some.formatMap["EAN_8"] = "EAN-8"
    /\ adapter.some.reverseFormatMap["EAN-13"] = "EAN_13"
    /\ Cardinality(DOMAIN adapter.some.reverseFormatMap) = Len(formatMapEntries)

\* C7: after every construction the hints' formats are the requested list
\* without the kinds the table lacks, each remaining kind as its tag, in order.
C7_FormatsFilteredInOrder ==
    IsDefined(ctorArgs)
    => /\ IsDefined(adapter.some.decodeHints)
       /\ adapter.some.decodeHints.some.formats
              = ExpectedTags(ctorArgs.some.requestedFormats)

\* C8: a supplied override is stored ending in "/": unchanged when it already
\* ends in "/", and otherwise followed by a single "/".
C8_OverrideEndsWithSeparator ==
    (IsDefined(ctorArgs) /\ IsDefined(ctorArgs.some.wasmLocationOveride))
    => LET given == ctorArgs.some.wasmLocationOveride.some
           stored == adapter.some.wasmLocationOverride
       IN /\ IsDefined(stored)
          /\ stored.some # <<>>
          /\ stored.some[Len(stored.some)] = "/"
          /\ (given # <<>> /\ given[Len(given)] = "/") => stored.some = given
          /\ (given = <<>> \/ given[Len(given)] # "/")
               => /\ stored.some = Append(given, "/")
                  /\ Len(stored.some) >= 2
                       => stored.some[Len(stored.some) - 1] # "/"

C8_Witness ==
    /\ IsDefined(ctorArgs)
    /\ ctorArgs.some.wasmLocationOveride = Some(<<"/", "w">>)
    /\ adapter.some.wasmLocationOverride = Some(<<"/", "w", "/">>)

ExpectedPrefix(override) ==
    IF override # <<>> /\ override[Len(override)] = "/"
    THEN override ELSE Append(override, "/")

\* C9: the registered resolver is that of the latest construction that
\* supplied an override: it sends a path ending in ".wasm" to that override,
\* normalised, followed by the path, and any other path to the default prefix
\* followed by the path; without any such construction none is registered.
C9_LastOverrideWins ==
    /\ IsDefined(moduleOverrides) <=> IsDefined(lastOverride)
    /\ IsDefined(lastOverride) =>
        \A path \in RequestedPaths, prefix \in Prefixes :
            locateFile(moduleOverrides.some, path, prefix)
              = IF Len(path) >= 5 /\ SubSeq(path, Len(path) - 4, Len(path)) = DotWasm
                THEN ExpectedPrefix(lastOverride.some) \o path
                ELSE prefix \o path
    /\ IsDefined(located) =>
        \/ located.some.result = located.some.prefix \o located.some.path
        \/ \E o \in Overrides :
              /\ IsDefined(o)
              /\ located.some.result = ExpectedPrefix(o.some) \o located.some.path

C9_Witness ==
    /\ lastOverride = Some(<<"w">>)
    /\ IsDefined(ctorArgs)
    /\ ctorArgs.some.wasmLocationOveride = Undefined
    /\ adapter.some.wasmLocationOverride = Undefined
    /\ IsDefined(located)
    /\ located.some.result = <<"w", "/", "z", ".", "w", "a", "s", "m">>

\* C10: decode calls leave the adapter's hints and format tables as the
\* construction built them, each engine call is passed those hints, and a
\* finished call's promise is the one its own engine response determines.
C10_CallsShareNothingMutable ==
    /\ adapter.some.decodeHints
         = Some([tryHarder |-> FALSE,
                 formats |-> ExpectedTags(ctorArgs.some.requestedFormats),
                 maxNumberOfSymbols |-> 1])
    /\ adapter.some.formatMap = formatMap
    /\ adapter.some.reverseFormatMap = createReverseFormatMap(formatMap)
    /\ \A i \in DOMAIN calls :
        calls[i].engineCalls = 1 => calls[i].hints = adapter.some.decodeHints
    /\ \A i \in DOMAIN calls :
        calls[i].pc = "done" /\ calls[i].engine.settled = "rejected"
            => calls[i].promise = [state |-> "rejected", reason |-> calls[i].engine.error]
    /\ \A i, j \in DOMAIN calls :
        (calls[i].pc = "done" /\ calls[j].pc = "done"
            /\ calls[i].engine = calls[j].engine
            /\ calls[i].engine.settled # "notCalled")
        => calls[i].promise = calls[j].promise
    /\ \A i \in DOMAIN calls :
        (calls[i].pc = "done" /\ calls[i].engine.settled = "resolved"
            /\ calls[i].engine.result # <<>>)
        => \/ calls[i].promise.state = "rejected"
           \/ calls[i].promise.value.text = calls[i].engine.result[1].text

C10_Witness ==
    /\ Len(calls) >= 2
    /\ calls[1].pc = "done" /\ calls[2].pc = "done"
    /\ calls[1].promise.state = "fulfilled"
    /\ calls[2].promise.state = "rejected"
    /\ calls[1].engine.settled = "resolved"
    /\ calls[2].engine.settled = "resolved"
    /\ calls[1].hints = adapter.some.decodeHints
    /\ adapter.some.decodeHints.some.formats = <<"EAN-13", "QRCode">>

====
